---- MODULE Spec2Model ----
(***************************************************************************)
(* A model of the ksense patient-risk assessment client.                   *)
(*                                                                         *)
(* The repository holds two variants of the same program:                  *)
(*   "index" : src/index.js                                                *)
(*   "part0" : src/unnamed/part_000                                        *)
(* Both fetch a paginated patient list (fetchWithRetry, fetchAllPatients), *)
(* classify the records (analyzePatients) and POST the three alert lists   *)
(* (submitResults).  The variable `variant` selects the variant a          *)
(* behaviour runs.                                                         *)
(*                                                                         *)
(* JavaScript values are modelled as tagged records; strings are sequences *)
(* of one-character strings so that parseInt, parseFloat, trim, split and  *)
(* includes are computed character by character.  Numbers are held in      *)
(* hundredths (98.6 is 9860), which represents every decimal literal of    *)
(* the program (99.5, 99.6, 100.9, 101) and every sampled input exactly.   *)
(***************************************************************************)
EXTENDS Integers, Sequences, FiniteSets, TLC

VARIABLES
    variant,    \* "index" or "part0": which source file runs
    patients,   \* analyzePatients' argument (main: const patients)
    result,     \* analyzePatients' outcome, NoResult before (main: const alerts)
    pc,         \* main flow: position ("fetch","page","analyze","submit","done")
                \* ("idle" where only analyzePatients is exercised)
    page,       \* fetchAllPatients: let page
    all,        \* fetchAllPatients: the accumulated records (all / allPatients)
    i,          \* fetchWithRetry / submitResults: the loop counter i
    backoff,    \* fetchWithRetry: let backoff (ms)
    callLog,    \* GET outcomes of the current fetchWithRetry call, in order
    waits,      \* waits (ms) of the current fetchWithRetry / submitResults call
    fetchState, \* last fetchWithRetry call: "running","returned","threw"
    data,       \* fetchAllPatients: const data, the value fetchWithRetry returned
    fetched,    \* pages whose fetchWithRetry call returned, in order
    bodies,     \* the values those calls returned, in the same order
    postLog,    \* POST outcomes of submitResults, in order
    outcome,    \* how the run ended ("running" until then)
    fn,         \* score function exercised on its own ("none": none)
    arg,        \* its argument: the value v passed, and the numbers a, b it spells
    ret         \* its return value v, once done

vars == <<variant, patients, result, pc, page, all, i, backoff, callLog, waits,
          fetchState, data, fetched, bodies, postLog, outcome, fn, arg, ret>>

scoreVars == <<fn, arg, ret>>

Variants == {"index", "part0"}

(***************************************************************************)
(* JavaScript values                                                       *)
(***************************************************************************)
Undef == [t |-> "undefined", h |-> 0, s |-> <<>>]
Null == [t |-> "null", h |-> 0, s |-> <<>>]
\* a number, h in hundredths
Num(h) == [t |-> "number", h |-> h, s |-> <<>>]
\* a string, s its characters
Str(s) == [t |-> "string", h |-> 0, s |-> s]

\* the result of a numeric parse: NaN or a finite number in hundredths
NaN == [nan |-> TRUE, h |-> 0]
Fin(h) == [nan |-> FALSE, h |-> h]
isNaN(x) == x.nan

\* n units and c hundredths as hundredths: Dec(99, 60) is 99.6
Dec(n, c) == n * 100 + c

DigitChars == <<"0", "1", "2", "3", "4", "5", "6", "7", "8", "9">>
HexChars == <<"0", "1", "2", "3", "4", "5", "6", "7", "8", "9",
              "a", "b", "c", "d", "e", "f">>
UpperHex == <<"0", "1", "2", "3", "4", "5", "6", "7", "8", "9",
              "A", "B", "C", "D", "E", "F">>

IsDigit(c) == \E k \in 1..10 : DigitChars[k] = c
IsHexDigit(c) == \E k \in 1..16 : HexChars[k] = c \/ UpperHex[k] = c
DigitVal(c) == (CHOOSE k \in 1..16 : HexChars[k] = c \/ UpperHex[k] = c) - 1
IsSpace(c) == c \in {" ", "\t", "\n"}

Drop(s, n) == SubSeq(s, n + 1, Len(s))

\* String.prototype.trim, in its two halves
RECURSIVE TrimStart(_)
TrimStart(s) ==
    IF s # <<>> /\ IsSpace(Head(s)) THEN TrimStart(Tail(s)) ELSE s

RECURSIVE TrimEnd(_)
TrimEnd(s) ==
    IF s # <<>> /\ IsSpace(s[Len(s)]) THEN TrimEnd(SubSeq(s, 1, Len(s) - 1)) ELSE s

Trim(s) == TrimEnd(TrimStart(s))

\* String.prototype.includes for a one-character needle
Includes(s, c) == \E k \in 1..Len(s) : s[k] = c

\* String.prototype.split for a one-character separator
RECURSIVE SplitFrom(_, _, _)
SplitFrom(s, c, cur) ==
    IF s = <<>> THEN <<cur>>
    ELSE IF Head(s) = c THEN <<cur>> \o SplitFrom(Tail(s), c, <<>>)
    ELSE SplitFrom(Tail(s), c, Append(cur, Head(s)))

Split(s, c) == SplitFrom(s, c, <<>>)

\* the decimal digits of a natural number
RECURSIVE NatChars(_)
NatChars(n) ==
    IF n < 10 THEN <<DigitChars[n + 1]>>
    ELSE Append(NatChars(n \div 10), DigitChars[(n % 10) + 1])

\* Number.prototype.toString for a number in hundredths
NumChars(h) ==
    LET a == IF h < 0 THEN -h ELSE h
        whole == NatChars(a \div 100)
        c == a % 100
        frac == IF c = 0 THEN <<>>
                ELSE IF c % 10 = 0 THEN <<".", DigitChars[(c \div 10) + 1]>>
                ELSE <<".", DigitChars[(c \div 10) + 1], DigitChars[(c % 10) + 1]>>
    IN  (IF h < 0 THEN <<"-">> ELSE <<>>) \o whole \o frac

\* ToString, as parseInt, parseFloat and patient_id.toString() apply it
ToChars(v) ==
    CASE v.t = "string" -> v.s
      [] v.t = "number" -> NumChars(v.h)
      [] v.t = "null" -> <<"n", "u", "l", "l">>
      [] OTHER -> <<"u", "n", "d", "e", "f", "i", "n", "e", "d">>

\* the longest prefix of s made of digits of the radix
RECURSIVE DigitPrefix(_, _)
DigitPrefix(s, radix) ==
    IF s # <<>> /\ (IF radix = 16 THEN IsHexDigit(Head(s)) ELSE IsDigit(Head(s)))
    THEN <<Head(s)>> \o DigitPrefix(Tail(s), radix)
    ELSE <<>>

RECURSIVE DigitsValue(_, _)
DigitsValue(ds, radix) ==
    IF ds = <<>> THEN 0
    ELSE DigitsValue(SubSeq(ds, 1, Len(ds) - 1), radix) * radix + DigitVal(ds[Len(ds)])

HasSign(s) == s # <<>> /\ Head(s) \in {"+", "-"}
SignOf(s) == IF s # <<>> /\ Head(s) = "-" THEN -1 ELSE 1
HasHexPrefix(s) == Len(s) >= 2 /\ s[1] = "0" /\ s[2] \in {"x", "X"}

\* parseInt(v, radix); radix 0 stands for the omitted argument, which makes
\* a leading 0x / 0X select base 16
parseInt(v, radix) ==
    LET t0 == TrimStart(ToChars(v))
        t1 == IF HasSign(t0) THEN Tail(t0) ELSE t0
        hex == radix = 0 /\ HasHexPrefix(t1)
        r == IF hex THEN 16 ELSE 10
        t2 == IF hex THEN Drop(t1, 2) ELSE t1
        ds == DigitPrefix(t2, r)
    IN  IF ds = <<>> THEN NaN
        ELSE Fin(SignOf(t0) * DigitsValue(ds, r) * 100)

\* parseFloat(v) for decimal literals with at most two fraction digits read
\* (no exponent, no "Infinity": the sampled inputs hold neither)
parseFloat(v) ==
    LET t0 == TrimStart(ToChars(v))
        t1 == IF HasSign(t0) THEN Tail(t0) ELSE t0
        ip == DigitPrefix(t1, 10)
        r1 == Drop(t1, Len(ip))
        fp == IF r1 # <<>> /\ Head(r1) = "." THEN DigitPrefix(Tail(r1), 10) ELSE <<>>
        f1 == IF Len(fp) >= 1 THEN DigitVal(fp[1]) ELSE 0
        f2 == IF Len(fp) >= 2 THEN DigitVal(fp[2]) ELSE 0
    IN  IF ip = <<>> /\ fp = <<>> THEN NaN
        ELSE Fin(SignOf(t0) * (DigitsValue(ip, 10) * 100 + f1 * 10 + f2))

\* JavaScript truthiness (!v is ~Truthy(v))
Truthy(v) ==
    CASE v.t = "string" -> v.s # <<>>
      [] v.t = "number" -> v.h # 0
      [] OTHER -> FALSE

(***************************************************************************)
(* Risk calculations (the same code in both files)                         *)
(***************************************************************************)

\* bp.includes is called on a value that is truthy and no string: TypeError
BloodPressureScoreThrows(bp) == Truthy(bp) /\ bp.t # "string"

\* getBloodPressureScore with the two upper tests strict (> for >=)
getBloodPressureScoreStrict(v, bp) ==
    IF ~Truthy(bp) \/ ~Includes(bp.s, "/") THEN 0
    ELSE LET parts == Split(bp.s, "/")
             s == parseInt(Str(parts[1]), 10)
             d == parseInt(Str(parts[2]), 10)
         IN  IF isNaN(s) \/ isNaN(d) THEN 0
             ELSE IF s.h > Dec(140, 0) \/ d.h > Dec(90, 0) THEN 4
             ELSE IF s.h > Dec(130, 0) \/ d.h > Dec(80, 0) THEN 3
             ELSE IF s.h >= Dec(120, 0) /\ d.h < Dec(80, 0) THEN 2
             ELSE IF s.h < Dec(120, 0) /\ d.h < Dec(80, 0) THEN 1
             ELSE 0

\* getBloodPressureScore(bp), where it does not throw.  index.js trims each
\* part before parseInt(.., 10); part_000 passes the part as it is.
getBloodPressureScore(v, bp) ==
    IF ~Truthy(bp) \/ ~Includes(bp.s, "/") THEN 0
    ELSE LET parts == Split(bp.s, "/")
             part(k) == IF v = "index" THEN Trim(parts[k]) ELSE parts[k]
             s == parseInt(Str(part(1)), 10)
             d == parseInt(Str(part(2)), 10)
         IN  IF isNaN(s) \/ isNaN(d) THEN 0
             ELSE IF s.h >= Dec(140, 0) \/ d.h >= Dec(90, 0) THEN 4
             ELSE IF s.h >= Dec(130, 0) \/ d.h >= Dec(80, 0) THEN 3
             ELSE IF s.h >= Dec(120, 0) /\ d.h < Dec(80, 0) THEN 2
             ELSE IF s.h < Dec(120, 0) /\ d.h < Dec(80, 0) THEN 1
             ELSE 0

getTemperatureScore(t) ==
    LET temp == parseFloat(t)
    IN  IF isNaN(temp) THEN 0
        ELSE IF temp.h <= Dec(99, 50) THEN 0
        ELSE IF temp.h <= Dec(100, 90) THEN 1
        ELSE IF temp.h >= Dec(101, 0) THEN 2
        ELSE 0

getAgeScore(age) ==
    LET a == parseInt(age, 10)
    IN  IF isNaN(a) THEN 0
        ELSE IF a.h > Dec(65, 0) THEN 2
        ELSE 1

(***************************************************************************)
(* analyzePatients                                                         *)
(***************************************************************************)

\* the radix analyzePatients passes to parseInt: none in index.js, 10 in part_000
ValidityRadix(v) == IF v = "index" THEN 0 ELSE 10

\* part_000 evaluates p.blood_pressure && p.blood_pressure.includes("/"):
\* a truthy value that is no string has no includes, and the call throws
ValidBPThrows(v, p) ==
    v = "part0" /\ Truthy(p.blood_pressure) /\ p.blood_pressure.t # "string"

\* const validBP = ..., where it does not throw
validBP(v, p) ==
    LET bp == p.blood_pressure
        parts == Split(bp.s, "/")
    IN  /\ IF v = "index" THEN bp.t = "string" ELSE Truthy(bp)
        /\ Includes(bp.s, "/")
        /\ ~isNaN(parseInt(Str(parts[1]), ValidityRadix(v)))
        /\ ~isNaN(parseInt(Str(parts[2]), ValidityRadix(v)))

validTemp(p) == ~isNaN(parseFloat(p.temperature))

validAge(v, p) == ~isNaN(parseInt(p.age, ValidityRadix(v)))

\* const id = p.patient_id?.toString().trim() of index.js
TrimmedId(p) ==
    IF p.patient_id.t \in {"undefined", "null"} THEN Undef
    ELSE Str(Trim(ToChars(p.patient_id)))

\* index.js: if (!id) continue
SkipsRecord(v, p) == v = "index" /\ ~Truthy(TrimmedId(p))

\* the value pushed for a record: the trimmed string in index.js, the raw
\* p.patient_id in part_000
PushedId(v, p) == IF v = "index" THEN TrimmedId(p) ELSE p.patient_id

\* index.js calls the three score functions unguarded; part_000 calls each
\* only for a valid metric
bpScore(v, p) ==
    IF v = "index" THEN getBloodPressureScore(v, p.blood_pressure)
    ELSE IF validBP(v, p) THEN getBloodPressureScore(v, p.blood_pressure) ELSE 0

tempScore(v, p) ==
    IF v = "index" THEN getTemperatureScore(p.temperature)
    ELSE IF validTemp(p) THEN getTemperatureScore(p.temperature) ELSE 0

ageScore(v, p) ==
    IF v = "index" THEN getAgeScore(p.age)
    ELSE IF validAge(v, p) THEN getAgeScore(p.age) ELSE 0

total(v, p) == bpScore(v, p) + tempScore(v, p) + ageScore(v, p)

\* the loop body throws a TypeError on this record
RecordThrows(v, p) ==
    IF v = "index" THEN ~SkipsRecord(v, p) /\ BloodPressureScoreThrows(p.blood_pressure)
    ELSE ValidBPThrows(v, p)

\* the condition of highRisk.push
IsHighRisk(v, p) ==
    IF v = "index" THEN total(v, p) >= 4 /\ validBP(v, p) /\ validAge(v, p)
    ELSE total(v, p) >= 4 /\ (validBP(v, p) \/ validTemp(p) \/ validAge(v, p))

\* the condition of fever.push
IsFever(p) == validTemp(p) /\ parseFloat(p.temperature).h >= Dec(99, 60)

\* the condition of dataIssues.push
HasDataIssue(v, p) == ~validBP(v, p) \/ ~validTemp(p) \/ ~validAge(v, p)

\* [...new Set(arr)]: the first occurrence of each value, in insertion order
RECURSIVE Dedupe(_)
Dedupe(arr) ==
    IF arr = <<>> THEN <<>>
    ELSE LET init == Dedupe(SubSeq(arr, 1, Len(arr) - 1))
             last == arr[Len(arr)]
         IN  IF \E k \in 1..Len(init) : init[k] = last THEN init
             ELSE Append(init, last)

\* the return statement: deduplicated in index.js, the arrays as built in part_000
ReturnArray(v, arr) == IF v = "index" THEN Dedupe(arr) ELSE arr

NoResult ==
    [st |-> "none", highRiskPatients |-> <<>>, feverPatients |-> <<>>,
     dataQualityIssues |-> <<>>]

Thrown ==
    [st |-> "threw", highRiskPatients |-> <<>>, feverPatients |-> <<>>,
     dataQualityIssues |-> <<>>]

\* the loop over patients from record k on, with the three arrays built so far
RECURSIVE AnalyzeFrom(_, _, _, _, _, _)
AnalyzeFrom(v, ps, k, highRisk, fever, dataIssues) ==
    IF k > Len(ps)
    THEN [st |-> "returned",
          highRiskPatients |-> ReturnArray(v, highRisk),
          feverPatients |-> ReturnArray(v, fever),
          dataQualityIssues |-> ReturnArray(v, dataIssues)]
    ELSE LET p == ps[k]
             id == PushedId(v, p)
         IN  IF SkipsRecord(v, p)
             THEN AnalyzeFrom(v, ps, k + 1, highRisk, fever, dataIssues)
             ELSE IF RecordThrows(v, p) THEN Thrown
             ELSE AnalyzeFrom(v, ps, k + 1,
                      IF IsHighRisk(v, p) THEN Append(highRisk, id) ELSE highRisk,
                      IF IsFever(p) THEN Append(fever, id) ELSE fever,
                      IF HasDataIssue(v, p) THEN Append(dataIssues, id) ELSE dataIssues)

analyzePatients(v, ps) == AnalyzeFrom(v, ps, 1, <<>>, <<>>, <<>>)

(***************************************************************************)
(* Sampled inputs of analyzePatients                                       *)
(***************************************************************************)
Rec(id, bp, temp, age) ==
    [patient_id |-> id, blood_pressure |-> bp, temperature |-> temp, age |-> age]

P1 == Str(<<"P", "1">>)
P2 == Str(<<"P", "2">>)
PaddedP1 == Str(<<" ", "P", "1", " ">>)
EmptyId == Str(<<>>)
BlankId == Str(<<" ", " ">>)

BP_150_95 == Str(<<"1", "5", "0", "/", "9", "5">>)
BP_118_75 == Str(<<"1", "1", "8", "/", "7", "5">>)
BP_bad == Str(<<"b", "a", "d">>)
BP_hex == Str(<<"0", "x", "/", "0", "x">>)
BP_number == Num(Dec(120, 0))

T_99_5 == Str(<<"9", "9", ".", "5">>)
T_99_6 == Str(<<"9", "9", ".", "6">>)
T_101_5 == Str(<<"1", "0", "1", ".", "5">>)

Age_70 == Str(<<"7", "0">>)
Age_30 == Str(<<"3", "0">>)
Age_abc == Str(<<"a", "b", "c">>)
Age_hex == Str(<<"0", "x">>)

BPSamples == {BP_150_95, BP_bad, BP_number}
TempSamples == {T_99_5, T_99_6, T_101_5, Undef}
AgeSamples == {Age_70, Age_30, Age_abc}
OtherIds == {P2, PaddedP1, EmptyId, BlankId, Undef}

\* every combination of the metric samples under one identifier; a normal
\* blood pressure with and without alerts; two combinations under each other
\* identifier; the inputs on which parseInt with and without a radix differ;
\* a numeric blood pressure without identifier
SampleRecords ==
    {Rec(P1, bp, t, a) : bp \in BPSamples, t \in TempSamples, a \in AgeSamples}
    \cup {Rec(P1, BP_118_75, T_101_5, Age_30), Rec(P1, BP_118_75, T_99_5, Age_30)}
    \cup {Rec(id, bp, T_101_5, Age_70) : id \in OtherIds, bp \in {BP_150_95, BP_bad}}
    \cup {Rec(P1, BP_hex, T_99_5, Age_70), Rec(P1, BP_150_95, T_101_5, Age_hex),
          Rec(Undef, BP_number, T_99_5, Age_30)}

\* longest input sequence of analyzePatients that is explored
MaxPatients == 2

RECURSIVE SeqsUpTo(_, _)
SeqsUpTo(S, n) ==
    IF n = 0 THEN {<<>>}
    ELSE LET shorter == SeqsUpTo(S, n - 1)
         IN  shorter \cup {Append(q, x) : q \in {r \in shorter : Len(r) = n - 1}, x \in S}

(***************************************************************************)
(* Response bodies of the patient endpoint                                 *)
(***************************************************************************)
\* a parsed body: undefined, null, or an object holding a record array under
\* `key` ("none": under no key) and pagination.hasNext ("absent": not there)
NoBody == [t |-> "undefined", key |-> "none", recs |-> <<>>, hasNext |-> "absent"]
NullBody == [t |-> "null", key |-> "none", recs |-> <<>>, hasNext |-> "absent"]
Body(key, recs, hasNext) ==
    [t |-> "object", key |-> key, recs |-> recs, hasNext |-> hasNext]

Healthy == Rec(P2, BP_118_75, T_99_5, Age_30)
Risky == Rec(P1, BP_150_95, T_101_5, Age_70)
Malformed == Rec(P1, BP_number, Undef, Age_abc)

SampleBodies ==
    {NullBody,
     Body("none", <<>>, "true"),
     Body("data", <<>>, "true"),
     Body("data", <<>>, "absent"),
     Body("data", <<Healthy>>, "true"),
     Body("data", <<Risky>>, "false"),
     Body("data", <<Healthy, Risky>>, "absent"),
     Body("patients", <<Risky>>, "true"),
     Body("data", <<Malformed>>, "false")}

\* what one GET attempt meets: a 2xx with a parsed body, a status, or an
\* exception thrown by fetch or by res.json()
GetKinds == {"ok", "429", "500", "404", "400", "exception"}

\* what one POST attempt meets; "okbadjson" is a 2xx whose res.json() throws
PostKinds == {"ok", "okbadjson", "429", "500", "400", "exception"}

(***************************************************************************)
(* fetchWithRetry                                                          *)
(***************************************************************************)
\* retries = 5
Retries == 5
\* backoff = 500
InitialBackoff == 500

\* res.status === 429 || (res.status >= 500 && res.status < 600)
RetryStatus(kind) == kind \in {"429", "500"}

\* a backoff that is never doubled
ConstantBackoff(b) == b

\* backoff *= 2
NextBackoff(b) == b * 2

\* fetchWithRetry whose loop runs while i <= retries
FetchStepOneMore(v, n, kind) ==
    IF kind = "ok" THEN [next |-> "return", waited |-> FALSE]
    ELSE IF v = "index"
    THEN IF RetryStatus(kind)
         THEN [next |-> IF n + 1 <= Retries THEN "retry" ELSE "falloff", waited |-> TRUE]
         ELSE IF n = Retries
              THEN [next |-> "throw", waited |-> FALSE]
              ELSE [next |-> "retry", waited |-> TRUE]
    ELSE [next |-> IF n + 1 <= Retries THEN "retry" ELSE "throw", waited |-> TRUE]

\* how attempt n (the loop counter, from 0) ends when it meets `kind`:
\*   next   "return"  the parsed body is returned
\*          "retry"   the loop goes on with the next attempt
\*          "falloff" the loop ends, and so does the function, without a value
\*          "throw"   the call throws
\*   waited whether a wait of `backoff` precedes that
FetchStep(v, n, kind) ==
    IF kind = "ok" THEN [next |-> "return", waited |-> FALSE]
    ELSE IF v = "index"
    THEN IF RetryStatus(kind)
         THEN [next |-> IF n + 1 < Retries THEN "retry" ELSE "falloff", waited |-> TRUE]
         ELSE IF n = Retries - 1
              THEN [next |-> "throw", waited |-> FALSE]
              ELSE [next |-> "retry", waited |-> TRUE]
    ELSE [next |-> IF n + 1 < Retries THEN "retry" ELSE "throw", waited |-> TRUE]

(***************************************************************************)
(* fetchAllPatients                                                        *)
(***************************************************************************)
\* extractPatients that makes up a record where it finds no array
extractPatientsOrDefault(d) ==
    IF d.t # "object" THEN <<Healthy>>
    ELSE IF d.key \in {"data", "patients", "result"} THEN d.recs
    ELSE <<Healthy>>

\* extractPatients(data) of index.js
extractPatients(d) ==
    IF d.t # "object" THEN <<>>
    ELSE IF d.key \in {"data", "patients", "result"} THEN d.recs
    ELSE <<>>

\* the loop body with hasNext left true after every page that was pushed
PageStepIgnoresFlag(v, d) ==
    IF v = "index"
    THEN LET ps == extractPatients(d)
         IN  IF ps = <<>> THEN [stop |-> TRUE, pushed |-> <<>>, hasNext |-> FALSE]
             ELSE [stop |-> FALSE, pushed |-> ps, hasNext |-> TRUE]
    ELSE IF d.t # "object" \/ d.key # "data"
         THEN [stop |-> TRUE, pushed |-> <<>>, hasNext |-> FALSE]
         ELSE [stop |-> FALSE, pushed |-> d.recs, hasNext |-> TRUE]

\* the loop body after `data` is known:
\*   stop    the loop ends without a push (break / hasNext = false; continue)
\*   pushed  the records appended to the accumulated array
\*   hasNext the new value of hasNext
PageStep(v, d) ==
    IF v = "index"
    THEN LET ps == extractPatients(d)
         IN  IF ps = <<>> THEN [stop |-> TRUE, pushed |-> <<>>, hasNext |-> FALSE]
             ELSE [stop |-> FALSE, pushed |-> ps,
                   hasNext |-> IF d.hasNext = "absent" THEN Len(ps) > 0
                               ELSE d.hasNext = "true"]
    ELSE IF d.t # "object" \/ d.key # "data"
         THEN [stop |-> TRUE, pushed |-> <<>>, hasNext |-> FALSE]
         ELSE [stop |-> FALSE, pushed |-> d.recs, hasNext |-> d.hasNext = "true"]

(***************************************************************************)
(* submitResults                                                           *)
(***************************************************************************)
\* i < 3, retries = 3
SubmitRetries == 3

\* how POST attempt n (from 0) ends when it meets `kind`:
\*   next "return", "retry", "fail" (the terminal Error after the loop) or
\*        "escape" (the attempt's own exception leaves submitResults)
\*   wait the wait before that in ms, 0 for none
SubmitStep(v, n, kind) ==
    IF v = "index"
    THEN CASE kind = "ok" -> [next |-> "return", wait |-> 0]
           [] kind \in {"okbadjson", "exception"} -> [next |-> "escape", wait |-> 0]
           [] kind \in {"429", "500"} ->
                [next |-> IF n + 1 < SubmitRetries THEN "retry" ELSE "fail",
                 wait |-> 2000]
           [] OTHER -> [next |-> "fail", wait |-> 0]
    ELSE IF kind = "ok" THEN [next |-> "return", wait |-> 0]
         ELSE [next |-> IF n + 1 < SubmitRetries THEN "retry" ELSE "fail",
               wait |-> 1000 * (n + 1)]

(***************************************************************************)
(* The main flow                                                           *)
(***************************************************************************)
\* no score function is exercised on its own
NoArg == [v |-> Undef, a |-> 0, b |-> 0]
NoRet == [done |-> FALSE, v |-> 0]
ScoreIdle == fn = "none" /\ arg = NoArg /\ ret = NoRet

\* highest page number the model lets fetchAllPatients request
MaxPages == 2

Init ==
    /\ variant \in Variants
    /\ pc = "fetch" /\ page = 1 /\ all = <<>>
    /\ i = 0 /\ backoff = InitialBackoff /\ callLog = <<>> /\ waits = <<>>
    /\ fetchState = "running" /\ data = NoBody /\ fetched = <<>> /\ bodies = <<>>
    /\ patients = <<>> /\ result = NoResult
    /\ postLog = <<>> /\ outcome = "running"
    /\ ScoreIdle

\* one pass of fetchWithRetry's loop: the GET, and what follows its outcome
FetchAttempt ==
    /\ pc = "fetch"
    /\ page <= MaxPages
    /\ \E kind \in GetKinds, body \in SampleBodies :
         LET step == FetchStep(variant, i, kind)
         IN  /\ callLog' = Append(callLog, kind)
             /\ waits' = IF step.waited THEN Append(waits, backoff) ELSE waits
             /\ backoff' = IF step.waited THEN NextBackoff(backoff) ELSE backoff
             /\ i' = IF step.waited THEN i + 1 ELSE i
             /\ fetchState' = CASE step.next = "retry" -> "running"
                                [] step.next = "throw" -> "threw"
                                [] OTHER -> "returned"
             /\ data' = IF step.next = "return" THEN body ELSE NoBody
             /\ fetched' = IF step.next \in {"return", "falloff"}
                           THEN Append(fetched, page) ELSE fetched
             /\ bodies' = IF step.next \in {"return", "falloff"}
                          THEN Append(bodies, data') ELSE bodies
             /\ pc' = CASE step.next = "retry" -> "fetch"
                        [] step.next = "throw" -> "done"
                        [] OTHER -> "page"
             /\ outcome' = IF step.next = "throw" THEN "fetch-error" ELSE outcome
    /\ UNCHANGED <<variant, patients, result, page, all, postLog, scoreVars>>

\* fetchAllPatients after `await fetchWithRetry`: the rest of the loop body,
\* then the next call or the return
PageDone ==
    /\ pc = "page"
    /\ LET step == PageStep(variant, data)
           goesOn == ~step.stop /\ step.hasNext
       IN  /\ all' = all \o step.pushed
           /\ page' = IF step.stop THEN page ELSE page + 1
           /\ pc' = IF goesOn THEN "fetch" ELSE "analyze"
           /\ fetchState' = IF goesOn THEN "running" ELSE fetchState
           /\ callLog' = IF goesOn THEN <<>> ELSE callLog
           /\ waits' = IF goesOn THEN <<>> ELSE waits
           /\ i' = IF goesOn THEN 0 ELSE i
           /\ backoff' = IF goesOn THEN InitialBackoff ELSE backoff
    /\ UNCHANGED <<variant, patients, result, data, fetched, bodies, postLog, outcome,
                   scoreVars>>

\* main between `await fetchAllPatients()` and submitResults: how it ends
\* there ("running": it goes on to submitResults)
MainEnd(v, ps, alerts) ==
    CASE v = "index" /\ ps = <<>> -> "no-patients"
      [] alerts.st = "threw" -> "analyze-error"
      [] /\ v = "index"
         /\ alerts.highRiskPatients = <<>>
         /\ alerts.feverPatients = <<>>
         /\ alerts.dataQualityIssues = <<>> -> "empty-alerts"
      [] OTHER -> "running"

\* main after `await fetchAllPatients()`, up to the first POST
Main ==
    /\ pc = "analyze"
    /\ patients' = all
    /\ result' = IF variant = "index" /\ all = <<>> THEN NoResult
                 ELSE analyzePatients(variant, all)
    /\ outcome' = MainEnd(variant, all, result')
    /\ pc' = IF outcome' = "running" THEN "submit" ELSE "done"
    /\ i' = 0 /\ backoff' = 0 /\ callLog' = <<>> /\ waits' = <<>>
    /\ fetchState' = "none"
    /\ UNCHANGED <<variant, page, all, data, fetched, bodies, postLog, scoreVars>>

\* one pass of submitResults' loop: the POST, and what follows its outcome
SubmitAttempt ==
    /\ pc = "submit"
    /\ \E kind \in PostKinds :
         LET step == SubmitStep(variant, i, kind)
         IN  /\ postLog' = Append(postLog, kind)
             /\ waits' = IF step.wait > 0 THEN Append(waits, step.wait) ELSE waits
             /\ i' = IF step.wait > 0 THEN i + 1 ELSE i
             /\ pc' = IF step.next = "retry" THEN "submit" ELSE "done"
             /\ outcome' = CASE step.next = "retry" -> outcome
                             [] step.next = "return" -> "success"
                             [] step.next = "fail" -> "submit-failed"
                             [] OTHER -> "submit-exception"
    /\ UNCHANGED <<variant, patients, result, page, all, backoff, callLog,
                   fetchState, data, fetched, bodies, scoreVars>>

Next == FetchAttempt \/ PageDone \/ Main \/ SubmitAttempt

Spec == Init /\ [][Next]_vars

(***************************************************************************)
(* SpecFetch: fetchAllPatients on its own.  Every `await` of the loop is   *)
(* settled in the end: fetch() resolves or rejects and the timers fire.    *)
(***************************************************************************)
NextFetch == FetchAttempt \/ PageDone

SpecFetch ==
    Init /\ [][NextFetch]_vars /\ WF_vars(FetchAttempt) /\ WF_vars(PageDone)

(***************************************************************************)
(* SpecAnalyze: analyzePatients applied to every sampled input             *)
(***************************************************************************)
FlowIdle ==
    /\ pc = "idle" /\ page = 1 /\ all = <<>> /\ i = 0 /\ backoff = 0
    /\ callLog = <<>> /\ waits = <<>> /\ fetchState = "none" /\ data = NoBody
    /\ fetched = <<>> /\ bodies = <<>> /\ postLog = <<>> /\ outcome = "running"

flowVars == <<pc, page, all, i, backoff, callLog, waits, fetchState, data,
              fetched, bodies, postLog, outcome>>

InitAnalyze ==
    /\ variant \in Variants
    /\ patients \in SeqsUpTo(SampleRecords, MaxPatients)
    /\ result = NoResult
    /\ FlowIdle
    /\ ScoreIdle

Analyze ==
    /\ pc = "idle"
    /\ result.st = "none"
    /\ result' = analyzePatients(variant, patients)
    /\ UNCHANGED <<variant, patients, flowVars, scoreVars>>

NextAnalyze == Analyze

SpecAnalyze == InitAnalyze /\ [][NextAnalyze]_vars

(***************************************************************************)
(* SpecScore: getTemperatureScore and getBloodPressureScore applied to     *)
(* every temperature in hundredths and every integer pair of a range       *)
(***************************************************************************)
\* highest temperature (degrees), systolic and diastolic value explored
MaxTemperature == 102
MaxSystolic == 145
MaxDiastolic == 95

Temperatures == Dec(98, 0)..Dec(MaxTemperature, 0)
Systolics == {-5, 0} \cup (115..MaxSystolic)
Diastolics == {-5, 0} \cup (75..MaxDiastolic)

\* a temperature in hundredths, passed as a string or as a number
TemperatureArgs ==
    {[v |-> Str(NumChars(h)), a |-> h, b |-> 0] : h \in Temperatures}
    \cup {[v |-> Num(h), a |-> h, b |-> 0] : h \in Temperatures}

\* the reading "s/d"
BloodPressureArgs ==
    {[v |-> Str(NumChars(Dec(s, 0)) \o <<"/">> \o NumChars(Dec(d, 0))),
      a |-> s, b |-> d] : s \in Systolics, d \in Diastolics}

InitScore ==
    /\ variant \in Variants
    /\ \/ fn = "getTemperatureScore" /\ arg \in TemperatureArgs
       \/ fn = "getBloodPressureScore" /\ arg \in BloodPressureArgs
    /\ ret = NoRet
    /\ patients = <<>> /\ result = NoResult
    /\ FlowIdle

ScoreTemperature ==
    /\ fn = "getTemperatureScore"
    /\ ~ret.done
    /\ ret' = [done |-> TRUE, v |-> getTemperatureScore(arg.v)]
    /\ UNCHANGED <<variant, patients, result, flowVars, fn, arg>>

ScoreBloodPressure ==
    /\ fn = "getBloodPressureScore"
    /\ ~ret.done
    /\ ret' = [done |-> TRUE, v |-> getBloodPressureScore(variant, arg.v)]
    /\ UNCHANGED <<variant, patients, result, flowVars, fn, arg>>

NextScore == ScoreTemperature \/ ScoreBloodPressure

SpecScore == InitScore /\ [][NextScore]_vars

(***************************************************************************)
(* Claims about the score functions (checked under SpecScore)              *)
(***************************************************************************)
\* C12 (as claimed): getTemperatureScore returns 0 for every temperature
\* <= 99.5, 1 for every temperature above 99.5 and below 101, and 2 for every
\* temperature >= 101, over the temperatures in hundredths of a degree.
C12_TemperatureBuckets ==
    (fn = "getTemperatureScore" /\ ret.done) =>
        ret.v = IF arg.a <= Dec(99, 50) THEN 0
                ELSE IF arg.a < Dec(101, 0) THEN 1
                ELSE 2

\* C13: for every integer pair (s, d), getBloodPressureScore("s/d") is 4 if
\* s >= 140 or d >= 90, else 3 if s >= 130 or d >= 80, else 2 if s >= 120 and
\* d < 80, else 1 if s < 120 and d < 80; one of the four always applies, so
\* the result is never the trailing 0.
C13_BloodPressureTable ==
    (fn = "getBloodPressureScore" /\ ret.done) =>
        /\ ret.v \in 1..4
        /\ ret.v = 4 <=> (arg.a >= 140 \/ arg.b >= 90)
        /\ ret.v = 3 <=> (~(arg.a >= 140 \/ arg.b >= 90) /\ (arg.a >= 130 \/ arg.b >= 80))
        /\ ret.v = 2 <=> (/\ ~(arg.a >= 140 \/ arg.b >= 90)
                          /\ ~(arg.a >= 130 \/ arg.b >= 80)
                          /\ arg.a >= 120 /\ arg.b < 80)
        /\ ret.v = 1 <=> (/\ ~(arg.a >= 140 \/ arg.b >= 90)
                          /\ ~(arg.a >= 130 \/ arg.b >= 80)
                          /\ ~(arg.a >= 120 /\ arg.b < 80)
                          /\ arg.a < 120 /\ arg.b < 80)

\* C13's case: the last branch of the table was taken for a reading "s/d"
C13_Witness ==
    /\ fn = "getBloodPressureScore" /\ ret.done
    /\ arg.a = 119 /\ arg.b = 79 /\ ret.v = 1

(***************************************************************************)
(* Claims about analyzePatients (checked under SpecAnalyze)                *)
(***************************************************************************)
InArr(x, arr) == \E k \in 1..Len(arr) : arr[k] = x

\* a patient_id that is present and not empty or whitespace-only
UsableId(p) == p.patient_id.t = "string" /\ Trim(p.patient_id.s) # <<>>

\* the value of an array entry is such an identifier
UsableValue(x) == x.t = "string" /\ Trim(x.s) # <<>>

UsableRecords == {k \in 1..Len(patients) : UsableId(patients[k])}

\* the identifier under which the running variant reports record k
IdOf(k) == PushedId(variant, patients[k])

AnyMetricValid(p) == validBP(variant, p) \/ validTemp(p) \/ validAge(variant, p)

AnyMetricInvalid(p) == ~validBP(variant, p) \/ ~validTemp(p) \/ ~validAge(variant, p)

NoDuplicates(arr) == \A j, k \in 1..Len(arr) : arr[j] = arr[k] => j = k

RECURSIVE OnlyUsable(_)
OnlyUsable(ps) ==
    IF ps = <<>> THEN <<>>
    ELSE IF UsableId(Head(ps)) THEN <<Head(ps)>> \o OnlyUsable(Tail(ps))
    ELSE OnlyUsable(Tail(ps))

\* C4 (as claimed): when analyzePatients returns, the identifier of a record
\* with a usable patient_id is in highRiskPatients if and only if some record
\* carrying it has a combined score >= 4 and at least one valid metric.
C4_HighRiskRule ==
    result.st = "returned" =>
        \A k \in UsableRecords :
            InArr(IdOf(k), result.highRiskPatients)
            <=> \E j \in UsableRecords :
                    /\ IdOf(j) = IdOf(k)
                    /\ total(variant, patients[j]) >= 4
                    /\ AnyMetricValid(patients[j])

\* C5 (as claimed): once analyzePatients has run on an input, an identifier is
\* in dataQualityIssues if and only if some record carrying it has an invalid
\* blood pressure, temperature or age.
C5_DataQualityIff ==
    result.st # "none" =>
        \A k \in UsableRecords :
            InArr(IdOf(k), result.dataQualityIssues)
            <=> \E j \in UsableRecords :
                    IdOf(j) = IdOf(k) /\ AnyMetricInvalid(patients[j])

\* C6 (as claimed): once analyzePatients has run on an input, an identifier is
\* in feverPatients if and only if some record carrying it has a valid
\* temperature that parses to a value >= 99.6, whatever its other fields.
C6_FeverIff ==
    result.st # "none" =>
        \A k \in UsableRecords :
            InArr(IdOf(k), result.feverPatients)
            <=> \E j \in UsableRecords :
                    /\ IdOf(j) = IdOf(k)
                    /\ validTemp(patients[j])
                    /\ parseFloat(patients[j].temperature).h >= Dec(99, 60)

\* C7 (as claimed): a record whose patient_id is absent, empty or
\* whitespace-only adds nothing: no returned array holds an entry that is no
\* usable identifier, and the arrays are those of the input without such
\* records.
C7_IdentifierOmission ==
    result.st = "returned" =>
        /\ \A k \in 1..Len(result.highRiskPatients) :
               UsableValue(result.highRiskPatients[k])
        /\ \A k \in 1..Len(result.feverPatients) :
               UsableValue(result.feverPatients[k])
        /\ \A k \in 1..Len(result.dataQualityIssues) :
               UsableValue(result.dataQualityIssues[k])
        /\ result = analyzePatients(variant, OnlyUsable(patients))

\* C8 (as claimed): each of the three returned arrays holds every identifier
\* at most once.
C8_Deduplicated ==
    result.st = "returned" =>
        /\ NoDuplicates(result.highRiskPatients)
        /\ NoDuplicates(result.feverPatients)
        /\ NoDuplicates(result.dataQualityIssues)

\* C10 (as claimed): when every record has a usable patient_id,
\* analyzePatients returns without throwing whatever the metric fields hold,
\* and every record with an invalid metric is reported in dataQualityIssues.
C10_InvalidityIsNoError ==
    (result.st # "none" /\ UsableRecords = 1..Len(patients)) =>
        /\ result.st = "returned"
        /\ \A k \in 1..Len(patients) :
               AnyMetricInvalid(patients[k]) => InArr(IdOf(k), result.dataQualityIssues)

(***************************************************************************)
(* Claims about the main flow (checked under Spec)                         *)
(***************************************************************************)
\* the fetchWithRetry call the log belongs to has ended
CallEnded == fetchState \in {"returned", "threw"}

\* every attempt of the call met HTTP 429
AllRateLimited == callLog # <<>> /\ \A k \in 1..Len(callLog) : callLog[k] = "429"

\* the call used all its attempts and none returned a body
Exhausted == Len(callLog) = Retries /\ \A k \in 1..Len(callLog) : callLog[k] # "ok"

\* C1 (as claimed): a fetchWithRetry call never makes more than 5 requests,
\* and a call whose every attempt met HTTP 429 ends only after exactly 5
\* requests and only by throwing (it does not return).
C1_RetryExhaustion ==
    /\ Len(callLog) <= Retries
    /\ (CallEnded /\ AllRateLimited) => (Len(callLog) = Retries /\ fetchState = "threw")

\* C2 (as claimed): fetchAllPatients does not return (main does not go on
\* with its records) when the fetchWithRetry call of a page used up its
\* retries; the run ends with the fetch error instead.
C2_NoPartialFetchResult ==
    Exhausted => (pc \in {"fetch", "page", "done"} /\ (pc = "done" => outcome = "fetch-error"))

\* C3 (as claimed): a fetchWithRetry call whose first attempt met HTTP 404 has
\* failed after that one request, without a wait and without another attempt.
C3_NotFoundIsNotRetried ==
    (callLog # <<>> /\ callLog[1] = "404") =>
        (Len(callLog) = 1 /\ fetchState = "threw" /\ waits = <<>>)

\* C9 (as claimed): submitResults issues at most 3 POSTs, and a POST answered
\* with a non-success status other than 429 and below 500 is the last one:
\* submitResults has then ended with its terminal error, without a wait.
C9_SubmitRetryPolicy ==
    /\ Len(postLog) <= SubmitRetries
    /\ \A k \in 1..Len(postLog) :
           postLog[k] = "400" =>
               /\ k = Len(postLog)
               /\ pc = "done" /\ outcome = "submit-failed"
               /\ Len(waits) = k - 1

\* some fetchWithRetry call of the run used up its retries and still came
\* back: the value it handed to fetchAllPatients is undefined, which no
\* response body parses to
SomeCallFellOff == \E k \in 1..Len(bodies) : bodies[k].t = "undefined"

\* C11 (as claimed): a POST is issued only in a run in which no page fetch
\* used up its retries and at least one patient record was fetched.
C11_NoSubmitAfterFailure ==
    postLog # <<>> => (~SomeCallFellOff /\ patients # <<>>)


\* C14: whatever mix of 429, 5xx, other non-success statuses, exceptions and
\* successes the attempts of one fetchWithRetry call meet, the call makes at
\* most 5 requests; while it runs, every request so far has failed and has
\* used one pass of the loop (so fewer than 5 have been made and the loop
\* counter rises with every failure); a successful request is the last one of the
\* call, which has then returned the parsed body; and a call that has ended
\* ended on a success or after its 5th request ...
C14_Attempts ==
    /\ Len(callLog) <= Retries
    /\ \A k \in 1..Len(callLog) :
           callLog[k] = "ok" =>
               (k = Len(callLog) /\ fetchState = "returned" /\ data \in SampleBodies)
    /\ fetchState = "running" => (i = Len(callLog) /\ Len(callLog) < Retries)
    /\ CallEnded => (callLog[Len(callLog)] = "ok" \/ Len(callLog) = Retries)

\* ... and every call ends: a call that is running has ended some time later
C14_BoundedAttempts ==
    /\ []C14_Attempts
    /\ (pc = "fetch" /\ page <= MaxPages) ~> (pc # "fetch")

\* C14's case: a call that met a rate limit, an exception and a client error
\* before its first success
C14_Witness ==
    /\ callLog = <<"429", "exception", "400", "ok">>
    /\ fetchState = "returned"
    /\ data \in SampleBodies

\* 500 * 2^k
BackoffAfter(k) == InitialBackoff * 2 ^ k

ArrayKeys(v) == IF v = "index" THEN {"data", "patients", "result"} ELSE {"data"}

\* the body holds a record array
HasRecordArray(v, b) == b.t = "object" /\ b.key \in ArrayKeys(v)

\* the records of a page body
RecordArray(v, b) == IF HasRecordArray(v, b) THEN b.recs ELSE <<>>

\* the records of the page bodies bs, page after page
RECURSIVE RecordsInPageOrder(_, _)
RecordsInPageOrder(v, bs) ==
    IF bs = <<>> THEN <<>>
    ELSE RecordArray(v, Head(bs)) \o RecordsInPageOrder(v, Tail(bs))

\* the body of page k came from a successful attempt
FetchedSuccessfully(k) == bodies[k] \in SampleBodies

\* C15 (order): the pages whose call returned are 1, 2, ... in this order,
\* each once; whenever a page is requested it is the one after them (so page
\* 1 is first and no page is requested again), every page before it was
\* fetched successfully and none of them reported hasNext = false; and the
\* accumulated array, which is what fetchAllPatients returns, holds the
\* records of the fetched pages in page order.
C15_Order ==
    /\ \A k \in 1..Len(fetched) : fetched[k] = k
    /\ pc = "fetch" =>
           /\ page = Len(fetched) + 1
           /\ \A k \in 1..Len(bodies) :
                  FetchedSuccessfully(k) /\ bodies[k].hasNext # "false"
    /\ pc # "page" => all = RecordsInPageOrder(variant, bodies)

\* C15: the order above holds throughout, and once a response has reported
\* hasNext = false fetchAllPatients returns.
C15_PaginationOrder ==
    /\ []C15_Order
    /\ (pc = "page" /\ data.hasNext = "false") ~> (pc = "analyze")

\* C15's case: page 1 reported hasNext = true, page 2 hasNext = false, and
\* fetchAllPatients returned the records of both
C15_Witness ==
    /\ pc = "analyze"
    /\ fetched = <<1, 2>>
    /\ bodies[1].hasNext = "true" /\ bodies[2].hasNext = "false"
    /\ all = <<Healthy, Risky>>

\* page k has been handled by the loop body
Handled(k) == k < Len(bodies) \/ pc # "page"

\* the page after page k has been requested
NextRequested(k) ==
    k < Len(bodies) \/ pc = "fetch" \/ (pc = "done" /\ outcome = "fetch-error")

\* C16: a successfully fetched body without a record array is the last page
\* fetched and fetchAllPatients goes on to return, it does not throw; every
\* record of the accumulated array is a record of some fetched body; and in
\* index.js, after a page whose body holds a record array but no
\* pagination.hasNext, the next page is requested exactly if that array was
\* not empty.
C16_DefensiveEnvelope ==
    /\ \A k \in 1..Len(bodies) :
           (FetchedSuccessfully(k) /\ ~HasRecordArray(variant, bodies[k])) =>
               /\ k = Len(bodies)
               /\ pc \in {"page", "analyze", "submit"}
                      \/ (pc = "done" /\ outcome # "fetch-error")
    /\ \A j \in 1..Len(all) :
           \E k \in 1..Len(bodies) : \E m \in 1..Len(bodies[k].recs) :
               all[j] = bodies[k].recs[m]
    /\ variant = "index" =>
           \A k \in 1..Len(bodies) :
               (/\ FetchedSuccessfully(k) /\ Handled(k)
                /\ HasRecordArray(variant, bodies[k])
                /\ bodies[k].hasNext = "absent") =>
                   (NextRequested(k) <=> bodies[k].recs # <<>>)

\* C16's case: index.js went on after a page without pagination.hasNext, and
\* stopped at a null body with the records it had
C16_Witness ==
    /\ variant = "index" /\ pc = "analyze"
    /\ Len(bodies) = 2
    /\ bodies[1].hasNext = "absent" /\ bodies[1].recs # <<>>
    /\ bodies[2] = NullBody
    /\ all = bodies[1].recs


\* the loop body of analyzePatients computes the metrics of record p
MetricsComputed(v, p) == ~SkipsRecord(v, p) /\ ~RecordThrows(v, p)

\* C18 (as claimed): for every record whose metrics analyzePatients computed
\* (checked on the inputs it returned for, under SpecAnalyze), a metric it
\* found invalid adds 0 to the combined score; so a record with three invalid
\* metrics has combined score 0, and a combined score of 4 or more comes with
\* a valid metric.
C18_InvalidMetricsScoreZero ==
    result.st = "returned" =>
        \A k \in 1..Len(patients) :
            LET p == patients[k]
            IN  MetricsComputed(variant, p) =>
                    /\ ~validBP(variant, p) => bpScore(variant, p) = 0
                    /\ ~validTemp(p) => tempScore(variant, p) = 0
                    /\ ~validAge(variant, p) => ageScore(variant, p) = 0
                    /\ ~AnyMetricValid(p) => total(variant, p) = 0
                    /\ total(variant, p) >= 4 => AnyMetricValid(p)

\* C19 (as claimed): a POST attempt of submitResults that threw an exception
\* is followed by another attempt while fewer than 3 were made, and
\* submitResults ends after it only when it was the 3rd, with its terminal
\* error; the attempt's exception does not leave submitResults.
C19_SubmitRecoversFromExceptions ==
    \A k \in 1..Len(postLog) :
        postLog[k] = "exception" =>
            IF k < SubmitRetries
            THEN k < Len(postLog) \/ pc = "submit"
            ELSE pc = "done" /\ outcome = "submit-failed"

\* C20 (as claimed): once a POST was made no GET is made or due any more; a
\* POST answered with a success status is the last POST of the run, so at
\* most one POST of a run has a success status; and index.js makes no POST
\* when the three alert arrays are empty.
C20_OneSubmissionAfterFetching ==
    /\ postLog # <<>> => pc \in {"submit", "done"}
    /\ \A k \in 1..Len(postLog) :
           postLog[k] \in {"ok", "okbadjson"} => k = Len(postLog)
    /\ (variant = "index" /\ postLog # <<>>) =>
           ~(/\ result.highRiskPatients = <<>>
             /\ result.feverPatients = <<>>
             /\ result.dataQualityIssues = <<>>)

====
